---- MODULE Spec2Model ----
(***************************************************************************)
(* Fleet storage synchronisation and connection health of 512SvMan.        *)
(*                                                                         *)
(* The module holds four state machines over disjoint groups of variables, *)
(* and the coordinator's registry on its own (SpecRegistry):               *)
(*   SpecExports  the worker's export configuration file                   *)
(*                (CreateSharedFolder / RemoveSharedFolder of slave/nfs),  *)
(*   SpecMounts   the worker's CurrentMounts set, its RWMutex, the         *)
(*                MonitorMounts loop and the Mount/Unmount handlers,       *)
(*   SpecConn     the worker's monitorConnection loop,                     *)
(*   SpecCoord    the coordinator: connection registry, share store,       *)
(*                CreateSharePoint, DeleteSharePoint, SyncSharedFolder,    *)
(*                MountAllSharedFolders.                                   *)
(* Each specification leaves the other groups at their initial value.      *)
(***************************************************************************)
EXTENDS Integers, Sequences, FiniteSets, TLC

VARIABLES
    \* ---- export configuration file (worker) ----
    exportsFile,    \* /etc/exports.d/512svman.exports: [exists, lines, nl]
    xLast,          \* the last export operation: what it was called with and did
    \* ---- control channel and its monitor (worker) ----
    chanState,      \* connectivity state of the worker's ClientConn
    chanPrev,       \* the state the channel was in before its last transition
    chanNotified,   \* a state change happened since the monitor began to wait
    monPc,          \* where monitorConnection is: "switch", "wait", "restart", "gone"
    monState,       \* monitorConnection's local variable state
    monAct,         \* what the switch last did: "none", "connect", "log", "close"
    termRuns,       \* times this process ran the close-and-restart branch
    proc,           \* the worker process: "running", "replaced" (exec), "exited"
    gen,            \* how many times the process image has been replaced
    bootPc,         \* where ConnectGRPC is: "dial", "register", "started"
    bootFails,      \* failed attempts of ConnectGRPC in a row
    dials,          \* channels this process has dialled; the last is number dials
    openChans,      \* the dialled channels not yet closed
    regChan,        \* the channel whose SetConnection was acknowledged (0: none)
    monChan,        \* the channel monitorConnection was started on (0: none)
    pingChan,       \* the channel PingMaster was started on (0: none)
    pingPc,         \* PingMaster: "off", "send", "sleep", "gone"
    pingFails,      \* failed pings in a row
    \* ---- active mounts and their monitor (worker) ----
    CurrentMounts,  \* the ActiveMount set: a slice of FolderMount
    monHoldsR,      \* MonitorMounts holds CurrentMountsLock.RLock()
    pending,        \* per thread: the change it waits to make under Lock()
    mmPc,           \* MonitorMounts: "sleep", "scan", "remount", "lockwait"
    mmIdx,          \* index of the range loop over CurrentMounts
    mmLen,          \* length of the slice the range loop runs over
    mmTries,        \* failed remount attempts for the current entry
    mmMount,        \* the loop variable mount while it is remediated
    mmRead,         \* whether the last isMounted of the monitor could read the directory
    osMount,        \* the kernel's mount table: target -> the sources mounted on
                    \* it, one over the other, the last on top
    rpcLast,        \* outcome of the last Mount/Unmount call of the coordinator
    \* ---- coordinator ----
    connections,    \* the Connection Registry, in registration order
    nextConn,       \* the next fresh channel handle
    lastRegister,   \* per machine name: what its last Register call passed
    shares,         \* the Desired-State Store: the rows of the NFS share table
    cpc,            \* per coordinator task: "idle", or "gotConns" inside a mount pass
    mpConns,        \* per task: conns of its mount pass (GetAllGRPCConnections)
    calls,          \* per task: the remote calls issued by its operation, kept
                    \* while the operation runs and until the next one returns
    res             \* per task: that operation, and how it ended

exportVars == <<exportsFile, xLast>>
connVars == <<chanState, chanPrev, chanNotified, monPc, monState, monAct,
              termRuns, proc, gen, bootPc, bootFails, dials, openChans, regChan,
              monChan, pingChan, pingPc, pingFails>>

\* what ConnectGRPC and PingMaster keep
bootVars == <<bootPc, bootFails, dials, openChans, regChan, monChan, pingChan>>
pingVars == <<pingPc, pingFails>>

mountVars == <<CurrentMounts, monHoldsR, pending, mmPc, mmIdx, mmLen, mmTries,
               mmMount, mmRead, osMount, rpcLast>>

coordVars == <<connections, nextConn, lastRegister, shares, cpc, mpConns, calls,
               res>>

vars == <<exportVars, connVars, mountVars, coordVars>>

\* an action of one group leaves the other groups alone
OnlyExports == UNCHANGED <<connVars, mountVars, coordVars>>
OnlyConn == UNCHANGED <<exportVars, mountVars, coordVars>>
OnlyMounts == UNCHANGED <<exportVars, connVars, coordVars>>
OnlyCoord == UNCHANGED <<exportVars, connVars, mountVars>>

(***************************************************************************)
(* Text.  A string is a sequence of characters.  The fixed option texts    *)
(* "*(rw,sync,no_subtree_check,no_root_squash)" and a foreign option text  *)
(* hold no white space and are never split, so each is one symbol.         *)
(***************************************************************************)
SP == " "
HASH == "#"
OPTS == "*(rw,sync,no_subtree_check,no_root_squash)"
FOREIGN == "10.0.0.0/8(ro)"
BSLASH == "\\"
BACKSPACE == "<BS>"
BELL == "<BEL>"

\* strings.TrimSpace
RECURSIVE TrimLeft(_)
TrimLeft(s) == IF s # <<>> /\ Head(s) = SP THEN TrimLeft(Tail(s)) ELSE s

RECURSIVE TrimRight(_)
TrimRight(s) ==
    IF s # <<>> /\ s[Len(s)] = SP THEN TrimRight(SubSeq(s, 1, Len(s) - 1)) ELSE s

TrimSpace(s) == TrimRight(TrimLeft(s))

\* a check that takes every path for absolute
IsAbsAlways(p) == TRUE

\* filepath.IsAbs on Linux: the path starts with "/"
IsAbs(p) == p # <<>> /\ Head(p) = "/"

\* awk's $1 under the default field splitting: the first run of non-blank
\* characters of the record (<<>> when NF = 0).
RECURSIVE TakeField(_)
TakeField(s) ==
    IF s = <<>> \/ Head(s) = SP THEN <<>> ELSE <<Head(s)>> \o TakeField(Tail(s))

FirstField(line) == TakeField(TrimLeft(line))

\* awk: $0 ~ /^[[:space:]]*#/
IsComment(line) == TrimLeft(line) # <<>> /\ Head(TrimLeft(line)) = HASH

\* awk: NF == 0
IsBlank(line) == TrimLeft(line) = <<>>

\* fmt.Sprintf("%s *(rw,sync,no_subtree_check,no_root_squash)", path)
exportsEntry(path) == path \o <<SP, OPTS>>

(***************************************************************************)
(* The export file is its lines and whether the last line ends in a        *)
(* newline.  A file with no line has nl = TRUE; a missing file has         *)
(* exists = FALSE and no line.                                             *)
(***************************************************************************)
NoFile == [exists |-> FALSE, lines |-> <<>>, nl |-> TRUE]

\* grep -Fxq entry file: some line of the file is exactly the entry
GrepFx(file, entry) == \E i \in 1..Len(file.lines) : file.lines[i] = entry

\* echo entry >> file: the bytes of entry and a newline are appended, so an
\* unterminated last line is continued by the entry.
EchoAppend(file, entry) ==
    IF file.lines = <<>> \/ file.nl
    THEN [exists |-> TRUE, lines |-> Append(file.lines, entry), nl |-> TRUE]
    ELSE [exists |-> TRUE,
          lines |-> [file.lines EXCEPT ![Len(file.lines)] = @ \o entry],
          nl |-> TRUE]

\* touch file && (grep -Fxq entry file || echo entry >> file)
UpdateExports(file, entry) ==
    IF GrepFx(file, entry)
    THEN [file EXCEPT !.exists = TRUE]
    ELSE EchoAppend(file, entry)

\* awk -v p='...': awk reads the text of the assignment as a string constant,
\* so a backslash starts an escape sequence: two backslashes are one, a
\* backslash and b a backspace, a backslash and a an alert; before any other
\* character gawk drops the backslash, and a last backslash stays.
RECURSIVE AwkAssign(_)
AwkAssign(s) ==
    IF s = <<>> THEN <<>>
    ELSE IF Head(s) # BSLASH THEN <<Head(s)>> \o AwkAssign(Tail(s))
    ELSE IF Len(s) = 1 THEN <<BSLASH>>
    ELSE LET rest == AwkAssign(SubSeq(s, 3, Len(s)))
         IN  CASE s[2] = "b" -> <<BACKSPACE>> \o rest
               [] s[2] = "a" -> <<BELL>> \o rest
               [] OTHER      -> <<s[2]>> \o rest

\* awk '{ if ($0 ~ /^[[:space:]]*#/ || NF==0) { print; next } if ($1!=p) { print } }'
AwkKeeps(line, p) == IsComment(line) \/ IsBlank(line) \/ FirstField(line) # p

RECURSIVE FilterLines(_, _)
FilterLines(lines, p) ==
    IF lines = <<>> THEN <<>>
    ELSE IF AwkKeeps(Head(lines), p)
         THEN <<Head(lines)>> \o FilterLines(Tail(lines), p)
         ELSE FilterLines(Tail(lines), p)

\* if [ -f file ]; then awk ... > tmp; install tmp file; fi
\* awk ends every record it prints with a newline.
FilterExports(file, p) ==
    IF ~file.exists THEN file
    ELSE [exists |-> TRUE, lines |-> FilterLines(file.lines, p), nl |-> TRUE]

(***************************************************************************)
(* Inputs of the export operations.                                        *)
(***************************************************************************)
MaxLines == 2

PathA == <<"/", "a">>
\* a folder whose name holds a backslash
PathB == <<"/", "a", BSLASH, "b">>

\* folder paths a caller may send: absolute, relative, padded, empty
PathInputs == {PathA, PathB, <<"a">>, <<"/", "a", SP>>, <<SP>>}

\* lines an export file may hold before the worker touches it
CandidateLines ==
    { <<HASH, "c">>,                    \* a comment
      <<>>,                             \* a blank line
      exportsEntry(PathA),              \* the worker's own entries
      exportsEntry(PathB),
      <<"/", "a", SP, FOREIGN>>,        \* an entry of /a with other options
      <<SP, "/", "a", SP, OPTS>> }      \* an indented entry of /a

RECURSIVE SeqsUpTo(_, _)
SeqsUpTo(S, n) ==
    IF n = 0 THEN {<<>>}
    ELSE LET shorter == SeqsUpTo(S, n - 1)
         IN  shorter \cup {Append(s, x) : s \in shorter, x \in S}

InitialFiles ==
    {NoFile} \cup
    {f \in {[exists |-> TRUE, lines |-> ls, nl |-> nl] :
                ls \in SeqsUpTo(CandidateLines, MaxLines), nl \in BOOLEAN} :
        f.lines # <<>> \/ f.nl}

InitExports ==
    /\ exportsFile \in InitialFiles
    /\ xLast = [op |-> "none", path |-> <<>>, err |-> "none",
                pre |-> exportsFile, mkdir |-> FALSE, reload |-> FALSE]

IdleExports ==
    /\ exportsFile = NoFile
    /\ xLast = [op |-> "none", path |-> <<>>, err |-> "none",
                pre |-> NoFile, mkdir |-> FALSE, reload |-> FALSE]

(***************************************************************************)
(* CreateSharedFolder(folder): the outcome of each external command is the *)
(* environment's choice; failAt names the first command that fails.        *)
(***************************************************************************)
CreateFailPoints == {"none", "mkdir", "selinux", "exports", "reload"}

CreateSharedFolder(folderPath, failAt) ==
    LET path  == TrimSpace(folderPath)
        entry == exportsEntry(path)
        done(err, file, mk, rl) ==
            /\ exportsFile' = file
            /\ xLast' = [op |-> "CreateExport", path |-> folderPath, err |-> err,
                         pre |-> exportsFile, mkdir |-> mk, reload |-> rl]
    IN  IF ~IsAbs(folderPath) \/ path = <<>>
        THEN failAt = "none" /\ done("InvalidArgument", exportsFile, FALSE, FALSE)
        ELSE CASE failAt = "mkdir"   -> done("ExternalCommandFailed", exportsFile, FALSE, FALSE)
               [] failAt = "selinux" -> done("ExternalCommandFailed", exportsFile, TRUE, FALSE)
               [] failAt = "exports" -> done("ExternalCommandFailed", exportsFile, TRUE, FALSE)
               [] failAt = "reload"  -> done("ExternalCommandFailed",
                                             UpdateExports(exportsFile, entry), TRUE, FALSE)
               [] OTHER              -> done("none",
                                             UpdateExports(exportsFile, entry), TRUE, TRUE)

(***************************************************************************)
(* RemoveSharedFolder(folder)                                              *)
(***************************************************************************)
RemoveFailPoints == {"none", "filter", "reload"}

RemoveSharedFolder(folderPath, failAt) ==
    LET path == TrimSpace(folderPath)
        done(err, file, rl) ==
            /\ exportsFile' = file
            /\ xLast' = [op |-> "RemoveExport", path |-> folderPath, err |-> err,
                         pre |-> exportsFile, mkdir |-> FALSE, reload |-> rl]
    IN  IF path = <<>>
        THEN failAt = "none" /\ done("InvalidArgument", exportsFile, FALSE)
        ELSE CASE failAt = "filter" -> done("ExternalCommandFailed", exportsFile, FALSE)
               [] failAt = "reload" -> done("ExternalCommandFailed",
                                            FilterExports(exportsFile, AwkAssign(path)),
                                            FALSE)
               [] OTHER             -> done("none",
                                            FilterExports(exportsFile, AwkAssign(path)),
                                            TRUE)

CreateExport ==
    /\ \E p \in PathInputs, f \in CreateFailPoints : CreateSharedFolder(p, f)
    /\ OnlyExports

RemoveExport ==
    /\ \E p \in PathInputs, f \in RemoveFailPoints : RemoveSharedFolder(p, f)
    /\ OnlyExports

NextExports == CreateExport \/ RemoveExport

(***************************************************************************)
(* The worker's control channel: monitorConnection(conn)                   *)
(***************************************************************************)
MaxRestarts == 2
MaxBootFails == 2
MaxPingFails == 2

ChannelStates == {"Ready", "Idle", "Connecting", "TransientFailure", "Shutdown"}

\* main has called ConnectGRPC, which is about to dial.  The channel
\* variables describe the channel once grpc.WithBlock() has let the dial
\* return: it is Ready.
InitConn ==
    /\ chanState = "Ready"
    /\ chanPrev = "Connecting"
    /\ chanNotified = FALSE
    /\ monPc = "off"
    /\ monState = "Ready"
    /\ monAct = "none"
    /\ termRuns = 0
    /\ proc = "running"
    /\ gen = 0
    /\ bootPc = "dial"
    /\ bootFails = 0
    /\ dials = 0
    /\ openChans = {}
    /\ regChan = 0
    /\ monChan = 0
    /\ pingChan = 0
    /\ pingPc = "off"
    /\ pingFails = 0

IdleConn == InitConn

\* The channel implementation moves the channel; Shutdown is final.
ChannelTransition ==
    /\ proc = "running"
    /\ bootPc = "started"
    /\ chanState # "Shutdown"
    /\ \E s \in ChannelStates \ {chanState} :
          /\ chanState' = s
          /\ chanPrev' = chanState
    /\ chanNotified' = TRUE
    /\ UNCHANGED <<monPc, monState, monAct, termRuns, proc, gen, bootVars, pingVars>>
    /\ OnlyConn

\* case connectivity.Shutdown, connectivity.TransientFailure
IsTerminalOnlyFailure(state) == state = "TransientFailure"

\* a switch that also takes Idle for a lost connection
IsTerminalOrIdle(state) == state \in {"Shutdown", "TransientFailure", "Idle"}

IsTerminal(state) == state \in {"Shutdown", "TransientFailure"}

\* state := conn.GetState(); switch state { ... }; the non-terminal cases go on
\* to conn.WaitForStateChange(ctx, state)
MonitorSwitch ==
    /\ proc = "running"
    /\ monPc = "switch"
    /\ monState' = chanState
    /\ IF IsTerminal(chanState)
       THEN \* _ = conn.Close()
            /\ monAct' = "close"
            /\ chanState' = "Shutdown"
            /\ chanPrev' = IF chanState = "Shutdown" THEN chanPrev ELSE chanState
            /\ termRuns' = termRuns + 1
            /\ monPc' = "restart"
            /\ openChans' = openChans \ {monChan}
            /\ UNCHANGED chanNotified
       ELSE /\ monAct' = CASE chanState = "Idle" -> "connect"
                           [] chanState = "Connecting" -> "log"
                           [] OTHER -> "none"
            /\ monPc' = "wait"
            /\ chanNotified' = FALSE
            /\ UNCHANGED <<chanState, chanPrev, termRuns, openChans>>
    /\ UNCHANGED <<proc, gen, bootPc, bootFails, dials, regChan, monChan, pingChan,
                   pingVars>>
    /\ OnlyConn

\* conn.WaitForStateChange(ctx, state) returns true: the channel left state
MonitorWake ==
    /\ proc = "running"
    /\ monPc = "wait"
    /\ chanState # monState \/ chanNotified
    /\ monPc' = "switch"
    /\ UNCHANGED <<chanState, chanPrev, chanNotified, monState, monAct,
                   termRuns, proc, gen, bootVars, pingVars>>
    /\ OnlyConn

\* a monitor that goes back to waiting on the channel when the exec fails
RestartSelfReturns ==
    /\ proc = "running"
    /\ monPc = "restart"
    /\ \/ proc' = "replaced" /\ monPc' = "gone" /\ pingPc' = "gone"
       \/ proc' = proc /\ monPc' = "wait" /\ pingPc' = pingPc
    /\ UNCHANGED <<chanState, chanPrev, chanNotified, monState, monAct,
                   termRuns, gen, bootVars, pingFails>>
    /\ OnlyConn

\* restartSelf(): syscall.Exec replaces the process image and never returns,
\* or fails, and the monitor goes on to os.Exit(1).  Either way every
\* goroutine of the process is gone.
RestartSelf ==
    /\ proc = "running"
    /\ monPc = "restart"
    /\ proc' \in {"replaced", "exited"}
    /\ monPc' = "gone"
    /\ pingPc' = "gone"
    /\ UNCHANGED <<chanState, chanPrev, chanNotified, monState, monAct,
                   termRuns, gen, bootVars, pingFails>>
    /\ OnlyConn

\* The fresh instance runs main and ConnectGRPC from scratch.
FreshInstance ==
    /\ proc = "replaced"
    /\ gen < MaxRestarts
    /\ gen' = gen + 1
    /\ chanState' = "Ready"
    /\ chanPrev' = "Connecting"
    /\ chanNotified' = FALSE
    /\ monPc' = "off"
    /\ monState' = "Ready"
    /\ monAct' = "none"
    /\ termRuns' = 0
    /\ proc' = "running"
    /\ bootPc' = "dial"
    /\ bootFails' = 0
    /\ dials' = 0
    /\ openChans' = {}
    /\ regChan' = 0
    /\ monChan' = 0
    /\ pingChan' = 0
    /\ pingPc' = "off"
    /\ pingFails' = 0
    /\ OnlyConn

\* a ConnectGRPC that starts its goroutines as soon as the dial returns
BootDialStartsMonitors ==
    /\ proc = "running"
    /\ bootPc = "dial"
    /\ \E ok \in BOOLEAN :
          /\ ~ok => bootFails < MaxBootFails
          /\ IF ok
             THEN /\ dials' = dials + 1
                  /\ openChans' = openChans \union {dials + 1}
                  /\ bootPc' = "started"
                  /\ monChan' = dials + 1 /\ pingChan' = dials + 1
                  /\ monPc' = "switch" /\ pingPc' = "send"
                  /\ UNCHANGED bootFails
             ELSE /\ bootFails' = bootFails + 1
                  /\ UNCHANGED <<bootPc, dials, openChans, monChan, pingChan, monPc,
                                 pingPc>>
    /\ UNCHANGED <<chanState, chanPrev, chanNotified, monState, monAct, termRuns,
                   proc, gen, regChan, pingFails>>
    /\ OnlyConn

\* ConnectGRPC: conn, err := grpc.DialContext(..., grpc.WithBlock()).  On an
\* error the loop starts again after a sleep.  The environment lets at most
\* MaxBootFails attempts in a row fail.
BootDial ==
    /\ proc = "running"
    /\ bootPc = "dial"
    /\ \E ok \in BOOLEAN :
          /\ ~ok => bootFails < MaxBootFails
          /\ IF ok
             THEN /\ dials' = dials + 1
                  /\ openChans' = openChans \union {dials + 1}
                  /\ bootPc' = "register"
                  /\ UNCHANGED bootFails
             ELSE /\ bootFails' = bootFails + 1
                  /\ UNCHANGED <<bootPc, dials, openChans>>
    /\ UNCHANGED <<chanState, chanPrev, chanNotified, monPc, monState, monAct,
                   termRuns, proc, gen, regChan, monChan, pingChan, pingVars>>
    /\ OnlyConn

\* ConnectGRPC: outR, err := h.SetConnection(...).  On an error the channel
\* is closed and the loop starts again; on the acknowledgement
\* go monitorConnection(conn); go PingMaster(conn); return conn.
BootRegister ==
    /\ proc = "running"
    /\ bootPc = "register"
    /\ \E ok \in BOOLEAN :
          /\ ~ok => bootFails < MaxBootFails
          /\ IF ok
             THEN /\ regChan' = dials
                  /\ monChan' = dials
                  /\ pingChan' = dials
                  /\ monPc' = "switch"
                  /\ pingPc' = "send"
                  /\ bootPc' = "started"
                  /\ bootFails' = 0
                  /\ UNCHANGED openChans
             ELSE /\ openChans' = openChans \ {dials}
                  /\ bootFails' = bootFails + 1
                  /\ bootPc' = "dial"
                  /\ UNCHANGED <<regChan, monChan, pingChan, monPc, pingPc>>
    /\ UNCHANGED <<chanState, chanPrev, chanNotified, monState, monAct, termRuns,
                   proc, gen, dials, pingFails>>
    /\ OnlyConn

\* a ping task that returns at the first Notify that fails
PingSendStopsOnError ==
    /\ proc = "running"
    /\ pingPc = "send"
    /\ \E ok \in BOOLEAN :
          /\ ~ok => pingFails < MaxPingFails
          /\ pingFails' = IF ok THEN 0 ELSE pingFails + 1
          /\ pingPc' = IF ok THEN "sleep" ELSE "gone"
    /\ UNCHANGED <<chanState, chanPrev, chanNotified, monPc, monState, monAct,
                   termRuns, proc, gen, bootVars>>
    /\ OnlyConn

\* PingMaster: _, err := h.Notify(ctx, ...); an error is logged, and the
\* task goes on to time.Sleep either way.  The environment lets at most
\* MaxPingFails pings in a row fail.
PingSend ==
    /\ proc = "running"
    /\ pingPc = "send"
    /\ \E ok \in BOOLEAN :
          /\ ~ok => pingFails < MaxPingFails
          /\ pingFails' = IF ok THEN 0 ELSE pingFails + 1
    /\ pingPc' = "sleep"
    /\ UNCHANGED <<chanState, chanPrev, chanNotified, monPc, monState, monAct,
                   termRuns, proc, gen, bootVars>>
    /\ OnlyConn

\* PingMaster: time.Sleep(PingInterval) is over
PingSleep ==
    /\ proc = "running"
    /\ pingPc = "sleep"
    /\ pingPc' = "send"
    /\ UNCHANGED <<chanState, chanPrev, chanNotified, monPc, monState, monAct,
                   termRuns, proc, gen, bootVars, pingFails>>
    /\ OnlyConn

NextConn ==
    \/ BootDial \/ BootRegister
    \/ ChannelTransition \/ MonitorSwitch \/ MonitorWake \/ RestartSelf
    \/ PingSend \/ PingSleep
    \/ FreshInstance

(***************************************************************************)
(* The worker's active mounts: MountSharedFolder, UnmountSharedFolder and  *)
(* MonitorMounts, sharing CurrentMounts under CurrentMountsLock.           *)
(***************************************************************************)
MaxMounts == 2
monitorFailureThreshold == 3

None == <<>>
S1 == <<"s">>
S2 == <<"r">>
T1 == <<"x">>
T2 == <<"y">>

\* mount points of the worker's file system
MountPoints == {T1, T2}

FolderMount(src, tgt) == [Source |-> src, Target |-> tgt]

\* the FolderMount values a Mount or Unmount call may carry
FolderInputs ==
    { FolderMount(S1, T1), FolderMount(S2, T1), FolderMount(S1, T2),
      FolderMount(None, T1), FolderMount(S1, None) }

NoChange == [op |-> "none", folder |-> FolderMount(None, None)]

Threads == {"mon", "rpc"}

InitMounts ==
    /\ CurrentMounts = <<>>
    /\ monHoldsR = FALSE
    /\ pending = [th \in Threads |-> NoChange]
    /\ mmPc = "sleep"
    /\ mmIdx = 1
    /\ mmLen = 0
    /\ mmTries = 0
    /\ mmMount = FolderMount(None, None)
    /\ mmRead = TRUE
    /\ osMount = [t \in MountPoints |-> <<>>]
    /\ rpcLast = [op |-> "none", err |-> "none"]

IdleMounts == InitMounts

\* the file system on top of a mount point (None: nothing is mounted)
Top(stack) == IF stack = <<>> THEN None ELSE stack[Len(stack)]

\* a probe that only asks the operating system for the mount point
isMountedUnread(os, target, readable) ==
    target \in MountPoints /\ os[target] # <<>>

\* isMounted(target) on the mount table os: the directory is readable and
\* mountpoint -q succeeds
isMountedIn(os, target, readable) ==
    readable /\ target \in MountPoints /\ os[target] # <<>>

isMounted(target, readable) == isMountedIn(osMount, target, readable)

\* a MountSharedFolder that does not look at its arguments before it runs
\* the commands
MountCommandUnchecked(folder, outcome) ==
    LET source == TrimSpace(folder.Source)
        target == TrimSpace(folder.Target)
    IN  IF outcome = "ok" /\ target \in MountPoints
        THEN "none"
        ELSE "ExternalCommandFailed"

\* The commands of MountSharedFolder up to the mount itself, on the mount
\* table os.  outcome is the environment's answer: "ok", or "fail" for a
\* failing mkdir or mount.  The kernel refuses (busy) the source that is
\* already the one mounted on the target; another source is mounted over
\* what is there.
MountCommandIn(os, folder, outcome) ==
    LET source == TrimSpace(folder.Source)
        target == TrimSpace(folder.Target)
    IN  IF source = <<>> \/ target = <<>> THEN "InvalidArgument"
        ELSE IF outcome = "ok" /\ target \in MountPoints /\ Top(os[target]) # source
             THEN "none"
             ELSE "ExternalCommandFailed"

MountCommand(folder, outcome) == MountCommandIn(osMount, folder, outcome)

AfterMountIn(os, folder) ==
    [os EXCEPT ![TrimSpace(folder.Target)] = Append(@, TrimSpace(folder.Source))]

AfterMount(folder) == AfterMountIn(osMount, folder)

\* The umount command of UnmountSharedFolder on the mount table os; it fails
\* on a target that is not mounted, and takes away what is on top.
UnmountCommandIn(os, folder, outcome) ==
    LET target == TrimSpace(folder.Target)
    IN  IF target = <<>> THEN "InvalidArgument"
        ELSE IF outcome = "ok" /\ target \in MountPoints /\ os[target] # <<>>
             THEN "none"
             ELSE "ExternalCommandFailed"

UnmountCommand(folder, outcome) == UnmountCommandIn(osMount, folder, outcome)

AfterUnmountIn(os, folder) ==
    [os EXCEPT ![TrimSpace(folder.Target)] = SubSeq(@, 1, Len(@) - 1)]

AfterUnmount(folder) == AfterUnmountIn(osMount, folder)

\* CurrentMounts = append(CurrentMounts, folder)
AppendMount(mounts, folder) == Append(mounts, folder)

\* for i, m := range CurrentMounts { if m.Target == target { remove i; break } }
RECURSIVE RemoveFirst(_, _)
RemoveFirst(mounts, target) ==
    IF mounts = <<>> THEN <<>>
    ELSE IF Head(mounts).Target = target THEN Tail(mounts)
         ELSE <<Head(mounts)>> \o RemoveFirst(Tail(mounts), target)

WriterWaiting == \E th \in Threads : pending[th].op # "none"

\* appends already promised by calls that wait for the lock
PendingAppends == Cardinality({th \in Threads : pending[th].op = "append"})

\* A Mount call of the coordinator, handled by the RPC server: the commands
\* run, then the handler calls CurrentMountsLock.Lock().
RpcMount ==
    /\ pending["rpc"].op = "none"
    /\ Len(CurrentMounts) + PendingAppends < MaxMounts
    /\ \E folder \in FolderInputs, outcome \in {"ok", "fail"} :
          LET err == MountCommand(folder, outcome)
          IN  /\ rpcLast' = [op |-> "mount", err |-> err]
              /\ IF err = "none"
                 THEN /\ osMount' = AfterMount(folder)
                      /\ pending' = [pending EXCEPT
                                        !["rpc"] = [op |-> "append", folder |-> folder]]
                 ELSE UNCHANGED <<osMount, pending>>
    /\ UNCHANGED <<CurrentMounts, monHoldsR, mmPc, mmIdx, mmLen, mmTries, mmMount, mmRead>>
    /\ OnlyMounts

\* An Unmount call of the coordinator.
RpcUnmount ==
    /\ pending["rpc"].op = "none"
    /\ \E folder \in FolderInputs, outcome \in {"ok", "fail"} :
          LET err == UnmountCommand(folder, outcome)
          IN  /\ rpcLast' = [op |-> "unmount", err |-> err]
              /\ IF err = "none"
                 THEN /\ osMount' = AfterUnmount(folder)
                      /\ pending' = [pending EXCEPT
                                        !["rpc"] = [op |-> "remove", folder |-> folder]]
                 ELSE UNCHANGED <<osMount, pending>>
    /\ UNCHANGED <<CurrentMounts, monHoldsR, mmPc, mmIdx, mmLen, mmTries, mmMount, mmRead>>
    /\ OnlyMounts

\* CurrentMountsLock.Lock() returns once no reader holds the lock; the change
\* is made and the lock released.  In the monitor the call returns to the
\* range loop.
LockAndChange ==
    /\ \E th \in Threads :
          /\ pending[th].op # "none"
          /\ ~monHoldsR
          /\ CurrentMounts' =
                IF pending[th].op = "append"
                THEN AppendMount(CurrentMounts, pending[th].folder)
                ELSE RemoveFirst(CurrentMounts, TrimSpace(pending[th].folder.Target))
          /\ pending' = [pending EXCEPT ![th] = NoChange]
          /\ IF th = "mon"
             THEN mmPc' = "scan" /\ mmIdx' = mmIdx + 1
             ELSE UNCHANGED <<mmPc, mmIdx>>
    /\ UNCHANGED <<monHoldsR, mmLen, mmTries, mmMount, mmRead, osMount, rpcLast>>
    /\ OnlyMounts

\* MonitorMounts, top of the for loop: CurrentMountsLock.RLock() and the start
\* of the range loop.  RLock waits while a writer holds or awaits the lock.
MonTick ==
    /\ mmPc = "sleep"
    /\ ~WriterWaiting
    /\ monHoldsR' = TRUE
    /\ mmLen' = Len(CurrentMounts)
    /\ mmIdx' = 1
    /\ mmPc' = "scan"
    /\ UNCHANGED <<CurrentMounts, pending, mmTries, mmMount, mmRead, osMount, rpcLast>>
    /\ OnlyMounts

\* one iteration of the range loop: if !isMounted(mount.Target) { ... }
MonProbe ==
    /\ mmPc = "scan"
    /\ mmIdx <= mmLen
    /\ \E readable \in BOOLEAN :
          /\ mmRead' = readable
          /\ IF isMounted(CurrentMounts[mmIdx].Target, readable)
             THEN /\ mmIdx' = mmIdx + 1
                  /\ UNCHANGED <<mmPc, mmTries, mmMount>>
             ELSE /\ mmPc' = "remount"
                  /\ mmTries' = 0
                  /\ mmMount' = CurrentMounts[mmIdx]
                  /\ UNCHANGED mmIdx
    /\ UNCHANGED <<CurrentMounts, monHoldsR, pending, mmLen, osMount, rpcLast>>
    /\ OnlyMounts

\* for i := 0; i < monitorFailureThreshold; i++ { err := MountSharedFolder(mount) ... }
\* A mount that succeeds goes on, inside MountSharedFolder, to
\* CurrentMountsLock.Lock(); a failure sleeps and counts.
MonRemount ==
    /\ mmPc = "remount"
    /\ mmTries < monitorFailureThreshold
    /\ \E outcome \in {"ok", "fail"} :
          IF MountCommand(mmMount, outcome) = "none"
          THEN /\ osMount' = AfterMount(mmMount)
               /\ pending' = [pending EXCEPT
                                 !["mon"] = [op |-> "append", folder |-> mmMount]]
               /\ mmPc' = "lockwait"
               /\ UNCHANGED mmTries
          ELSE /\ mmTries' = mmTries + 1
               /\ UNCHANGED <<osMount, pending, mmPc>>
    /\ UNCHANGED <<CurrentMounts, monHoldsR, mmIdx, mmLen, mmMount, mmRead, rpcLast>>
    /\ OnlyMounts

\* a monitor that unmounts as soon as one remount attempt has failed
MonUnmountEarly ==
    /\ mmPc = "remount"
    /\ mmTries >= 1
    /\ \E outcome \in {"ok", "fail"} :
          IF UnmountCommand(mmMount, outcome) = "none"
          THEN /\ osMount' = AfterUnmount(mmMount)
               /\ pending' = [pending EXCEPT
                                 !["mon"] = [op |-> "remove", folder |-> mmMount]]
               /\ mmPc' = "lockwait"
               /\ UNCHANGED mmIdx
          ELSE /\ mmPc' = "scan"
               /\ mmIdx' = mmIdx + 1
               /\ UNCHANGED <<osMount, pending>>
    /\ UNCHANGED <<CurrentMounts, monHoldsR, mmLen, mmTries, mmMount, mmRead, rpcLast>>
    /\ OnlyMounts

\* if !success { err := UnmountSharedFolder(mount) ... }: a umount that succeeds
\* goes on to CurrentMountsLock.Lock(); a failure is logged and the loop goes on.
MonUnmount ==
    /\ mmPc = "remount"
    /\ mmTries = monitorFailureThreshold
    /\ \E outcome \in {"ok", "fail"} :
          IF UnmountCommand(mmMount, outcome) = "none"
          THEN /\ osMount' = AfterUnmount(mmMount)
               /\ pending' = [pending EXCEPT
                                 !["mon"] = [op |-> "remove", folder |-> mmMount]]
               /\ mmPc' = "lockwait"
               /\ UNCHANGED mmIdx
          ELSE /\ mmPc' = "scan"
               /\ mmIdx' = mmIdx + 1
               /\ UNCHANGED <<osMount, pending>>
    /\ UNCHANGED <<CurrentMounts, monHoldsR, mmLen, mmTries, mmMount, mmRead, rpcLast>>
    /\ OnlyMounts

\* end of the range loop: CurrentMountsLock.RUnlock(); time.Sleep(monitorInterval)
MonEndScan ==
    /\ mmPc = "scan"
    /\ mmIdx > mmLen
    /\ monHoldsR' = FALSE
    /\ mmPc' = "sleep"
    /\ UNCHANGED <<CurrentMounts, pending, mmIdx, mmLen, mmTries, mmMount, mmRead,
                   osMount, rpcLast>>
    /\ OnlyMounts

\* The environment takes a mount away (the server goes, an operator unmounts).
EnvLoseMount ==
    /\ \E t \in MountPoints :
          /\ osMount[t] # <<>>
          /\ osMount' = [osMount EXCEPT ![t] = SubSeq(@, 1, Len(@) - 1)]
    /\ UNCHANGED <<CurrentMounts, monHoldsR, pending, mmPc, mmIdx, mmLen,
                   mmTries, mmMount, mmRead, rpcLast>>
    /\ OnlyMounts

NextMounts ==
    \/ RpcMount \/ RpcUnmount \/ LockAndChange
    \/ MonTick \/ MonProbe \/ MonRemount \/ MonUnmount \/ MonEndScan
    \/ EnvLoseMount

(***************************************************************************)
(* The coordinator.  The Connection Registry (package protocol) and the    *)
(* share table (package db) are used through their contracts; the          *)
(* orchestrator is services.NFSService.                                    *)
(***************************************************************************)
MaxConns == 2
MaxShares == 2

\* the workers that register while the coordinator runs
Machines == {"a", "b"}
SharePaths == {<<"/", "p">>, <<"/", "q">>}

\* the shares the API is asked for and the table may hold; machine c owns a
\* share and stays away for the whole run
ShareKeys == {<<"a", <<"/", "p">>>>, <<"b", <<"/", "p">>>>, <<"c", <<"/", "q">>>>}

\* the address a machine registers with
AddrOf(m) == <<"ip", m>>

NoConn == [MachineName |-> "", Addr |-> <<>>, Connection |-> 0]

RECURSIVE Concat(_)
Concat(ss) == IF ss = <<>> THEN <<>> ELSE Head(ss) \o Concat(Tail(ss))

SeqToSet(q) == {q[i] : i \in 1..Len(q)}

\* ---- Connection Registry ----
\* the arguments of one Register call
Registration(m, addr, c) == [MachineName |-> m, Addr |-> addr, Connection |-> c]

\* a registry that keeps the entry a machine name already has
RegisterKeepsFirst(conns, m, addr, c) ==
    IF \E i \in 1..Len(conns) : conns[i].MachineName = m
    THEN conns
    ELSE Append(conns, [MachineName |-> m, Addr |-> addr, Connection |-> c])

\* Register(machineName, address, channel): inserts or replaces the entry
RegisterAppendAlways(conns, m, addr, c) ==
    Append(conns, [MachineName |-> m, Addr |-> addr, Connection |-> c])

Register(conns, m, addr, c) ==
    LET entry == [MachineName |-> m, Addr |-> addr, Connection |-> c]
    IN  IF \E i \in 1..Len(conns) : conns[i].MachineName = m
        THEN [i \in 1..Len(conns) |->
                IF conns[i].MachineName = m THEN entry ELSE conns[i]]
        ELSE Append(conns, entry)

\* Lookup(machineName) -> ConnectionEntry | not-found
GetConnectionByMachineName(m) ==
    IF \E i \in 1..Len(connections) : connections[i].MachineName = m
    THEN connections[CHOOSE i \in 1..Len(connections) :
                        /\ connections[i].MachineName = m
                        /\ \A j \in 1..(i - 1) : connections[j].MachineName # m]
    ELSE NoConn

\* conn == nil || conn.Connection == nil
NotConnected(conn) == conn = NoConn \/ conn.Connection = 0

\* the machines a Lookup finds connected
ConnectedMachines == {m \in Machines : ~NotConnected(GetConnectionByMachineName(m))}

\* AllChannels() and AllMachineNames(): one enumeration of the registry each
GetAllGRPCConnections == [i \in 1..Len(connections) |-> connections[i].Connection]

GetAllMachineNames == [i \in 1..Len(connections) |-> connections[i].MachineName]

\* ---- Desired-State Store ----
\* getFolderName(path): the text after the last "/" of the path without one
\* trailing "/"
RECURSIVE LastComponent(_)
LastComponent(path) ==
    IF path = <<>> \/ path[Len(path)] = "/" THEN <<>>
    ELSE LastComponent(SubSeq(path, 1, Len(path) - 1)) \o <<path[Len(path)]>>

getFolderName(path) ==
    LastComponent(IF path # <<>> /\ path[Len(path)] = "/"
                  THEN SubSeq(path, 1, Len(path) - 1) ELSE path)

\* the proto.FolderMount that CreateSharePoint and DeleteSharePoint build
MountOf(m, path, addr) ==
    [MachineName |-> m,
     FolderPath  |-> path,
     Source      |-> addr \o <<":">> \o path,
     Target      |-> <<"/mnt/512SvMan/shared/", m, "_">> \o getFolderName(path)]

\* db.DoesExistNFSShare(machineName, folderPath)
DoesExistNFSShare(rows, m, path) ==
    \E i \in 1..Len(rows) : rows[i].MachineName = m /\ rows[i].FolderPath = path

\* db.RemoveNFSShare(machineName, folderPath)
RemoveNFSShare(rows, m, path) ==
    SelectSeq(rows, LAMBDA r : ~(r.MachineName = m /\ r.FolderPath = path))

\* db.GetNFSharesByMachineName(machineName)
GetNFSharesByMachineName(rows, m) == SelectSeq(rows, LAMBDA r : r.MachineName = m)

\* the machines db.GetAllMachineNamesWithShares() returns
Owners(rows) == {rows[i].MachineName : i \in 1..Len(rows)}

\* the orders in which the store may enumerate a set of machines
Orders(S) ==
    {q \in [1..Cardinality(S) -> S] : \A i, j \in 1..Cardinality(S) : i # j => q[i] # q[j]}

\* a remote call: which one, on which channel, with what
Call(rpc, conn, arg) == [rpc |-> rpc, conn |-> conn, arg |-> arg]

\* ---- Synchronization Orchestrator ----
\* the coordinator's tasks: the one serving the HTTP API, and the one
\* serving worker registrations
CoordTasks == {"api", "reg"}

\* what is kept of an operation: its arguments, the store and the connected
\* machines it started on, the error it returned, the machines that error
\* names, and the machines whose share list it could not read
NoOp == [op |-> "none", machine |-> "", path |-> <<>>, pre |-> <<>>,
         connected |-> {}, err |-> "none", notConnected |-> <<>>, unread |-> {}]

StartOp(op, m, path) ==
    [NoOp EXCEPT !.op = op, !.machine = m, !.path = path, !.pre = shares,
                 !.connected = ConnectedMachines]

\* the sequences without repetition of at most n elements of S
RECURSIVE DistinctSeqs(_, _)
DistinctSeqs(S, n) ==
    IF n = 0 THEN {<<>>}
    ELSE LET shorter == DistinctSeqs(S, n - 1)
         IN  shorter \union
             {Append(q, x) : q \in {r \in shorter : Len(r) = n - 1}, x \in S}

\* the stores a coordinator may start on: the table outlives the process
InitialStores ==
    LET Row(k) == MountOf(k[1], k[2], AddrOf(k[1]))
    IN  {q \in {[i \in 1..Len(ks) |-> Row(ks[i])] :
                    ks \in DistinctSeqs(ShareKeys, MaxShares)} :
            \A i, j \in 1..Len(q) : i # j => q[i] # q[j]}

InitCoord ==
    /\ connections = <<>>
    /\ nextConn = 1
    /\ lastRegister = [m \in Machines |-> NoConn]
    /\ shares \in InitialStores
    /\ cpc = [t \in CoordTasks |-> "idle"]
    /\ mpConns = [t \in CoordTasks |-> <<>>]
    /\ calls = [t \in CoordTasks |-> <<>>]
    /\ res = [t \in CoordTasks |-> NoOp]

IdleCoord ==
    /\ connections = <<>>
    /\ nextConn = 1
    /\ lastRegister = [m \in Machines |-> NoConn]
    /\ shares = <<>>
    /\ cpc = [t \in CoordTasks |-> "idle"]
    /\ mpConns = [t \in CoordTasks |-> <<>>]
    /\ calls = [t \in CoordTasks |-> <<>>]
    /\ res = [t \in CoordTasks |-> NoOp]

NoSync == [notConnected |-> <<>>, unread |-> {}, calls |-> <<>>]

\* the loop of SyncSharedFolder that stops at the first machine without a
\* connection instead of going on to the next one
RECURSIVE SyncLoopBreak(_, _, _)
SyncLoopBreak(order, failReads, rows) ==
    IF order = <<>> THEN NoSync
    ELSE
        LET m == Head(order)
            conn == GetConnectionByMachineName(m)
            rest == SyncLoopBreak(Tail(order), failReads, rows)
        IN  IF NotConnected(conn)
            THEN [NoSync EXCEPT !.notConnected = <<m>>]
            ELSE IF m \in failReads
            THEN [rest EXCEPT !.unread = {m} \union @]
            ELSE [rest EXCEPT
                    !.calls = <<Call("SyncSharedFolder", conn.Connection,
                                     GetNFSharesByMachineName(rows, m))>> \o @]

\* the loop of SyncSharedFolder over slavesShared
RECURSIVE SyncLoop(_, _, _)
SyncLoop(order, failReads, rows) ==
    IF order = <<>> THEN NoSync
    ELSE
        LET m == Head(order)
            conn == GetConnectionByMachineName(m)
            rest == SyncLoop(Tail(order), failReads, rows)
        IN  IF NotConnected(conn)
            THEN [rest EXCEPT !.notConnected = <<m>> \o @]
            ELSE IF m \in failReads
            THEN [rest EXCEPT !.unread = {m} \union @]
            ELSE [rest EXCEPT
                    !.calls = <<Call("SyncSharedFolder", conn.Connection,
                                     GetNFSharesByMachineName(rows, m))>> \o @]

\* what the store answers during one SyncSharedFolder: whether the
\* enumeration of the owning machines fails, the order it comes in, and the
\* machines whose share list, when it is asked for, cannot be read
SyncEnvs(rows) ==
    {[enumFails |-> FALSE, order |-> o, failReads |-> f] :
        o \in Orders(Owners(rows)), f \in SUBSET (Owners(rows) \cap ConnectedMachines)}
    \union {[enumFails |-> TRUE, order |-> <<>>, failReads |-> {}]}

\* a synchronization that sends nothing when some owner is not connected
SyncSharedFolderAllOrNothing(rows, env) ==
    LET r == SyncLoop(env.order, env.failReads, rows)
    IN  IF env.enumFails
        THEN [err |-> "EnumerationFailed", notConnected |-> <<>>, unread |-> {},
              calls |-> <<>>]
        ELSE [err |-> IF Len(r.notConnected) > 0 THEN "PartialSyncFailure"
                      ELSE "none",
              notConnected |-> r.notConnected,
              unread |-> r.unread,
              calls |-> IF Len(r.notConnected) > 0 THEN <<>> ELSE r.calls]

\* SyncSharedFolder on the table rows, with the registry as it is
SyncSharedFolder(rows, env) ==
    LET r == SyncLoop(env.order, env.failReads, rows)
    IN  IF env.enumFails
        THEN [err |-> "EnumerationFailed", notConnected |-> <<>>, unread |-> {},
              calls |-> <<>>]
        ELSE [err |-> IF Len(r.notConnected) > 0 THEN "PartialSyncFailure"
                      ELSE "none",
              notConnected |-> r.notConnected,
              unread |-> r.unread,
              calls |-> r.calls]

\* what is kept of the operations: task t is at r with the calls cs; of the
\* other tasks, the operations still running
Observe(t, r, cs) ==
    /\ res' = [u \in CoordTasks |->
                IF u = t THEN r ELSE IF cpc[u] = "idle" THEN NoOp ELSE res[u]]
    /\ calls' = [u \in CoordTasks |->
                IF u = t THEN cs ELSE IF cpc[u] = "idle" THEN <<>> ELSE calls[u]]

\* an operation of task t returns err, having issued the calls cs
Finish(t, op, cs, err) ==
    /\ Observe(t, [op EXCEPT !.err = err], cs)
    /\ UNCHANGED <<cpc, mpConns>>

\* task t enters MountAllSharedFolders: conns := GetAllGRPCConnections()
BeginMountPass(t, op, cs, conns) ==
    /\ Observe(t, [op EXCEPT !.err = "running"], cs)
    /\ mpConns' = [mpConns EXCEPT ![t] = conns]
    /\ cpc' = [cpc EXCEPT ![t] = "gotConns"]

\* SyncSharedFolder, then MountAllSharedFolders unless the sync returned an
\* error: the end of CreateSharePoint, and UpdateNFSShit
SyncThenMount(op, cs, rows, env) ==
    LET r == SyncSharedFolder(rows, env)
        synced == [op EXCEPT !.notConnected = r.notConnected, !.unread = r.unread]
    IN  IF r.err # "none"
        THEN Finish("api", synced, cs \o r.calls, r.err)
        ELSE BeginMountPass("api", synced, cs \o r.calls, GetAllGRPCConnections)

\* a first check that lets every machine through
NeverNotConnected(conn) == FALSE

\* the first check of CreateSharePoint and of DeleteSharePoint
SlaveNotConnected(conn) == NotConnected(conn)

\* a worker completes registration: the registry takes its entry, and
\* newSlave starts a mount pass on GetAllGRPCConnections()
RegisterWorkerOf(m) ==
    /\ cpc["reg"] = "idle"
    /\ nextConn <= MaxConns
    /\ connections' = Register(connections, m, AddrOf(m), nextConn)
    /\ nextConn' = nextConn + 1
    /\ lastRegister' = [lastRegister EXCEPT ![m] = Registration(m, AddrOf(m), nextConn)]
    /\ BeginMountPass("reg", [NoOp EXCEPT !.op = "Register", !.machine = m], <<>>,
                      GetAllGRPCConnections')
    /\ UNCHANGED shares
    /\ OnlyCoord

RegisterWorker == \E m \in Machines : RegisterWorkerOf(m)

\* ---- the registry alone ----
MaxRegisters == 5

\* the addresses a worker may register from
Addresses(m) == {AddrOf(m), <<"ip2", m>>}

\* one Register call on the registry, from any machine at any of its addresses
RegisterCallOf(m, addr) ==
    /\ nextConn <= MaxRegisters
    /\ connections' = Register(connections, m, addr, nextConn)
    /\ nextConn' = nextConn + 1
    /\ lastRegister' = [lastRegister EXCEPT ![m] = Registration(m, addr, nextConn)]
    /\ UNCHANGED <<shares, cpc, mpConns, calls, res>>
    /\ OnlyCoord

RegisterCall == \E m \in Machines : \E addr \in Addresses(m) : RegisterCallOf(m, addr)

NextRegistry == RegisterCall

CreateOutcomes == {"ok", "remote fails", "add fails"}

CreateSharePointOf(m, path, outcome, env) ==
    /\ cpc["api"] = "idle"
    /\ LET conn == GetConnectionByMachineName(m)
           mount == MountOf(m, path, conn.Addr)
           create == Call("CreateSharedFolder", conn.Connection, mount)
           op == StartOp("CreateSharePoint", m, path)
       IN  IF SlaveNotConnected(conn)
           THEN /\ outcome = "ok" /\ env.order = <<>> /\ ~env.enumFails
                /\ Finish("api", op, <<>>, "NotConnected")
                /\ UNCHANGED shares
           ELSE IF outcome = "remote fails"
           THEN /\ env.order = <<>> /\ ~env.enumFails
                /\ Finish("api", op, <<create>>, "CreateExportFailed")
                /\ UNCHANGED shares
           ELSE IF DoesExistNFSShare(shares, m, path) \/ outcome = "add fails"
           THEN /\ env.order = <<>> /\ ~env.enumFails
                /\ Finish("api", op, <<create>>,
                          IF outcome = "add fails" THEN "AddFailed"
                          ELSE "AlreadyExists")
                /\ UNCHANGED shares
           ELSE /\ Len(shares) < MaxShares
                /\ shares' = Append(shares, mount)
                /\ env \in SyncEnvs(shares')
                /\ SyncThenMount(op, <<create>>, shares', env)
    /\ UNCHANGED <<connections, nextConn, lastRegister>>
    /\ OnlyCoord

CreateSharePoint ==
    \E k \in ShareKeys, outcome \in CreateOutcomes :
        \E env \in {[enumFails |-> FALSE, order |-> <<>>, failReads |-> {}]}
                    \union SyncEnvs(Append(shares, MountOf(k[1], k[2], <<>>))) :
            CreateSharePointOf(k[1], k[2], outcome, env)

DeleteOutcomes == {"ok", "read fails", "remote fails", "remove fails"}

\* checks that let a share the table does not hold through
DeleteChecksNoExistence(conn, readOk, exists) ==
    IF SlaveNotConnected(conn) THEN "NotConnected"
    ELSE IF ~readOk THEN "ExistsCheckFailed"
    ELSE "none"

\* the checks DeleteSharePoint makes before it removes anything
DeleteChecks(conn, readOk, exists) ==
    IF SlaveNotConnected(conn) THEN "NotConnected"
    ELSE IF ~readOk THEN "ExistsCheckFailed"
    ELSE IF ~exists THEN "NotFound"
    ELSE "none"

\* a removal that also asks every other registered worker to unmount
DeleteCallsAndUnmount(conn, mount) ==
    <<Call("RemoveSharedFolder", conn.Connection, mount)>>
    \o SelectSeq([i \in 1..Len(connections) |->
                    Call("UnmountSharedFolder", connections[i].Connection, mount)],
                 LAMBDA c : c.conn # conn.Connection)

\* the remote calls of DeleteSharePoint: nfs.RemoveSharedFolder on the owner
DeleteCalls(conn, mount) == <<Call("RemoveSharedFolder", conn.Connection, mount)>>

\* a DeleteSharePoint that takes the row out of the table although the
\* owner's RemoveSharedFolder failed
DeleteSharePointRemovesAnyway(m, path, outcome) ==
    /\ cpc["api"] = "idle"
    /\ LET conn == GetConnectionByMachineName(m)
           mount == MountOf(m, path, conn.Addr)
           issued == DeleteCalls(conn, mount)
           op == StartOp("DeleteSharePoint", m, path)
           checked == DeleteChecks(conn, outcome # "read fails",
                                   DoesExistNFSShare(shares, m, path))
       IN  IF checked # "none"
           THEN /\ checked # "ExistsCheckFailed" => outcome = "ok"
                /\ Finish("api", op, <<>>, checked)
                /\ UNCHANGED shares
           ELSE IF outcome = "remote fails"
           THEN /\ Finish("api", op, issued, "RemoveExportFailed")
                /\ shares' = RemoveNFSShare(shares, m, path)
           ELSE IF outcome = "remove fails"
           THEN /\ Finish("api", op, issued, "RemoveFailed")
                /\ UNCHANGED shares
           ELSE /\ Finish("api", op, issued, "none")
                /\ shares' = RemoveNFSShare(shares, m, path)
    /\ UNCHANGED <<connections, nextConn, lastRegister>>
    /\ OnlyCoord

DeleteSharePointOf(m, path, outcome) ==
    /\ cpc["api"] = "idle"
    /\ LET conn == GetConnectionByMachineName(m)
           mount == MountOf(m, path, conn.Addr)
           issued == DeleteCalls(conn, mount)
           op == StartOp("DeleteSharePoint", m, path)
           checked == DeleteChecks(conn, outcome # "read fails",
                                   DoesExistNFSShare(shares, m, path))
       IN  IF checked # "none"
           THEN /\ checked # "ExistsCheckFailed" => outcome = "ok"
                /\ Finish("api", op, <<>>, checked)
                /\ UNCHANGED shares
           ELSE IF outcome = "remote fails"
           THEN /\ Finish("api", op, issued, "RemoveExportFailed")
                /\ UNCHANGED shares
           ELSE IF outcome = "remove fails"
           THEN /\ Finish("api", op, issued, "RemoveFailed")
                /\ UNCHANGED shares
           ELSE /\ Finish("api", op, issued, "none")
                /\ shares' = RemoveNFSShare(shares, m, path)
    /\ UNCHANGED <<connections, nextConn, lastRegister>>
    /\ OnlyCoord

DeleteSharePoint ==
    \E k \in ShareKeys, outcome \in DeleteOutcomes :
        DeleteSharePointOf(k[1], k[2], outcome)

\* an UpdateNFSShit that first drops the rows of the machines without a
\* connection from the table
UpdateNFSShitPrunes(env) ==
    /\ cpc["api"] = "idle"
    /\ shares' = SelectSeq(shares, LAMBDA r : r.MachineName \in ConnectedMachines)
    /\ env \in SyncEnvs(shares')
    /\ SyncThenMount(StartOp("UpdateNFSShit", "", <<>>), <<>>, shares', env)
    /\ UNCHANGED <<connections, nextConn, lastRegister>>
    /\ OnlyCoord

UpdateNFSShitOf(env) ==
    /\ cpc["api"] = "idle"
    /\ env \in SyncEnvs(shares)
    /\ SyncThenMount(StartOp("UpdateNFSShit", "", <<>>), <<>>, shares, env)
    /\ UNCHANGED <<connections, nextConn, lastRegister, shares>>
    /\ OnlyCoord

UpdateNFSShit == \E env \in SyncEnvs(shares) : UpdateNFSShitOf(env)

\* the first loop of MountAllSharedFolders: the export of every share on the
\* machine that owns it
CreateCalls(serversNFS, conns, machineNames) ==
    Concat([k \in 1..Len(serversNFS) |->
        Concat([i \in 1..Len(conns) |->
            IF conns[i] = 0 \/ machineNames[i] # serversNFS[k].MachineName
            THEN <<>>
            ELSE <<Call("CreateSharedFolder", conns[i], serversNFS[k])>>])])

\* the second loop: every share mounted on every connection
MountCalls(serversNFS, conns) ==
    Concat([i \in 1..Len(conns) |->
        IF conns[i] = 0 THEN <<>>
        ELSE [k \in 1..Len(serversNFS) |->
                Call("MountSharedFolder", conns[i], serversNFS[k])]])

\* the rest of MountAllSharedFolders: machineNames := GetAllMachineNames(),
\* the read of the table, the length check and the two loops, which return at
\* the first remote call that fails
MountPassFinish(t) ==
    /\ cpc[t] = "gotConns"
    /\ \E readOk \in BOOLEAN :
        LET conns == mpConns[t]
            machineNames == GetAllMachineNames
            planned == IF readOk /\ Len(conns) = Len(machineNames)
                       THEN CreateCalls(shares, conns, machineNames)
                                \o MountCalls(shares, conns)
                       ELSE <<>>
        IN  \E failAt \in 0..Len(planned) :
                Observe(t,
                    [res[t] EXCEPT !.err =
                       IF ~readOk THEN "ReadFailed"
                       ELSE IF Len(conns) # Len(machineNames) THEN "LengthMismatch"
                       ELSE IF failAt # 0 THEN "MountPassFailed"
                       ELSE "none"],
                    calls[t] \o (IF failAt = 0 THEN planned
                                 ELSE SubSeq(planned, 1, failAt)))
    /\ cpc' = [cpc EXCEPT ![t] = "idle"]
    /\ mpConns' = [mpConns EXCEPT ![t] = <<>>]
    /\ UNCHANGED <<connections, nextConn, lastRegister, shares>>
    /\ OnlyCoord

ApiMountPass == MountPassFinish("api")

NewSlaveMountPass == MountPassFinish("reg")

NextCoord ==
    \/ RegisterWorker
    \/ CreateSharePoint
    \/ DeleteSharePoint
    \/ UpdateNFSShit
    \/ ApiMountPass
    \/ NewSlaveMountPass

(***************************************************************************)
(* Specifications                                                          *)
(***************************************************************************)
InitSpecExports == InitExports /\ IdleConn /\ IdleMounts /\ IdleCoord

SpecExports == InitSpecExports /\ [][NextExports]_vars

InitSpecConn == IdleExports /\ InitConn /\ IdleMounts /\ IdleCoord

SpecConn == InitSpecConn /\ [][NextConn]_vars

\* Every goroutine that can run is scheduled.
SpecConnFair ==
    /\ SpecConn
    /\ WF_vars(BootDial)
    /\ WF_vars(BootRegister)
    /\ WF_vars(MonitorSwitch)
    /\ WF_vars(MonitorWake)
    /\ WF_vars(RestartSelf)
    /\ WF_vars(PingSend)
    /\ WF_vars(PingSleep)

InitSpecMounts == IdleExports /\ IdleConn /\ InitMounts /\ IdleCoord

SpecMounts == InitSpecMounts /\ [][NextMounts]_vars

\* The monitor goroutine is scheduled whenever it can take a step, and a
\* Lock() that can return does.  RLock() is not starved by writers: a reader
\* that waits is let in when the writer unlocks.
SpecMountsFair ==
    /\ SpecMounts
    /\ SF_vars(MonTick)
    /\ WF_vars(MonProbe)
    /\ WF_vars(MonRemount)
    /\ WF_vars(MonUnmount)
    /\ WF_vars(MonEndScan)
    /\ WF_vars(LockAndChange)

InitSpecCoord == IdleExports /\ IdleConn /\ IdleMounts /\ InitCoord

SpecCoord == InitSpecCoord /\ [][NextCoord]_vars

InitSpecRegistry == IdleExports /\ IdleConn /\ IdleMounts /\ IdleCoord

SpecRegistry == InitSpecRegistry /\ [][NextRegistry]_vars

(***************************************************************************)
(* Claims about the export configuration file.                             *)
(***************************************************************************)
\* the export entries of path p: the lines exportfs reads as an export of p
ExportEntries(file, p) ==
    {i \in 1..Len(file.lines) :
        /\ ~IsComment(file.lines[i])
        /\ ~IsBlank(file.lines[i])
        /\ FirstField(file.lines[i]) = p}

\* a successful CreateExport directly after a successful CreateExport of the
\* same path
RepeatedCreate ==
    /\ xLast.op = "CreateExport" /\ xLast.err = "none"
    /\ xLast'.op = "CreateExport" /\ xLast'.err = "none"
    /\ xLast'.path = xLast.path

\* C10: CreateExport(path) followed by CreateExport(path), for every absolute
\* path and every initial content of the export file, leaves exactly one
\* export entry for the path, and the second call leaves the file as the
\* first call left it.
C10_CreateExportIdempotent ==
    [][RepeatedCreate =>
        /\ exportsFile' = exportsFile
        /\ Cardinality(ExportEntries(exportsFile', TrimSpace(xLast.path))) = 1]_vars

(***************************************************************************)
(* Claims about the connection monitor.                                    *)
(***************************************************************************)
\* the channel went from Ready directly to Shutdown and this process has not
\* yet reacted
ReadyToShutdownPending ==
    /\ proc = "running"
    /\ chanPrev = "Ready" /\ chanState = "Shutdown"
    /\ termRuns = 0

\* C5: a channel that goes from Ready directly to Shutdown makes the monitor
\* run the close-and-restart branch exactly once: the branch is run (under
\* fair scheduling of the monitor) and it is never run a second time by the
\* same process on a later wake-up.
C5_RestartExactlyOnce ==
    /\ [](termRuns <= 1)
    /\ (ReadyToShutdownPending ~> termRuns = 1)

\* the monitor has handled a Ready -> Shutdown transition and the process is gone
C5_Witness ==
    /\ chanPrev = "Ready" /\ chanState = "Shutdown"
    /\ monState = "Shutdown" /\ termRuns = 1
    /\ monPc = "gone"

(***************************************************************************)
(* Claims about the active mounts and their monitor.                       *)
(***************************************************************************)
\* the monitor called Lock() inside a remediation while it holds RLock(): the
\* writer waits for the reader to leave, and the reader is the monitor itself
MonitorBlockedForever == monHoldsR /\ pending["mon"].op # "none"

\* an entry the liveness probe can pass
Healthy(mount) == isMounted(mount.Target, TRUE)

\* C2: an entry that fails the probe is, after at most 3 Mount attempts,
\* healthy again and still in the set, or removed from the set; no state is
\* reached in which an unhealthy entry stays in the set and the monitor never
\* acts on it again.
C2_RemediationOutcome ==
    /\ mmTries <= monitorFailureThreshold
    /\ ~(/\ MonitorBlockedForever
         /\ \E i \in 1..Len(CurrentMounts) : ~Healthy(CurrentMounts[i]))

\* C3: no two entries of CurrentMounts have the same target path.
C3_UniqueTargets ==
    \A i, j \in 1..Len(CurrentMounts) :
        i # j => CurrentMounts[i].Target # CurrentMounts[j].Target

\* C4: the monitor does not hold the read lock while it remediates (Mount or
\* Unmount), so the exclusive lock is never requested by the task that holds
\* the read lock.
C4_ReadLockReleasedBeforeRemediation ==
    /\ mmPc \in {"remount", "lockwait"} => ~monHoldsR
    /\ ~MonitorBlockedForever

(***************************************************************************)
(* Claims about the coordinator                                            *)
(***************************************************************************)
SyncCallsOf(cs) == SelectSeq(cs, LAMBDA c : c.rpc = "SyncSharedFolder")

\* the operation kept for the API task ran SyncSharedFolder, and the store
\* enumerated its owning machines
SyncRan ==
    /\ res["api"].op \in {"UpdateNFSShit", "CreateSharePoint"}
    /\ res["api"].err \in {"PartialSyncFailure", "running", "none", "ReadFailed",
                           "LengthMismatch", "MountPassFailed"}

\* C1: whenever SyncSharedFolder has run on a store that enumerated its
\* owning machines, in whatever order, it has named each owning machine that
\* had no connection exactly once and no other machine, it has returned the
\* partial-failure error exactly when there was such a machine, and it has
\* sent the sync call, with the machine's own shares, to every connected
\* owner whose share list the store returned: to all of them when no read
\* failed.
C1_SyncAllPartialFailure ==
    SyncRan =>
        LET r == res["api"]
            owners == Owners(shares)
            sent == SyncCallsOf(calls["api"])
            due == (owners \cap r.connected) \ r.unread
        IN  /\ SeqToSet(r.notConnected) = owners \ r.connected
            /\ Len(r.notConnected) = Cardinality(owners \ r.connected)
            /\ (r.err = "PartialSyncFailure") <=> (r.notConnected # <<>>)
            /\ r.unread \subseteq owners \cap r.connected
            /\ Len(sent) = Cardinality(due)
            /\ \A m \in due : \E i \in 1..Len(sent) :
                  sent[i].arg = GetNFSharesByMachineName(shares, m)

\* C1 witness: a sync that named one owner without a connection and still
\* sent the sync call to the other owner
C1_Witness ==
    /\ res["api"].err = "PartialSyncFailure"
    /\ Len(res["api"].notConnected) = 1
    /\ Cardinality(Owners(shares)) = 2
    /\ Len(SyncCallsOf(calls["api"])) = 1

\* C6: after any sequence of registrations, the channels and the machine
\* names the registry enumerates have the same length, the channel at an
\* index is the one registered for the name at that index, no name is listed
\* twice, and the channel registered last is among them.
C6_RegistryPairing ==
    LET conns == GetAllGRPCConnections
        names == GetAllMachineNames
    IN  /\ Len(conns) = Len(names)
        /\ \A i \in 1..Len(names) :
              GetConnectionByMachineName(names[i]).Connection = conns[i]
        /\ \A i, j \in 1..Len(names) : i # j => names[i] # names[j]
        /\ nextConn > 1 => (nextConn - 1) \in SeqToSet(conns)

\* C6 witness: a machine has registered again, and the registry holds it once
C6_Witness == nextConn > 2 /\ Len(connections) = 1

\* C7: when a mount pass has read its channels and then reads its machine
\* names, with registrations in between, the two sequences have the same
\* length and every pair of them is one entry of the registry.
C7_ConsistentSnapshot ==
    [][\A t \in CoordTasks :
        (cpc[t] = "gotConns" /\ cpc'[t] = "idle") =>
            LET conns == mpConns[t]
                names == GetAllMachineNames
            IN  /\ Len(conns) = Len(names)
                /\ \A i \in 1..Len(conns) : \E j \in 1..Len(connections) :
                      /\ connections[j].MachineName = names[i]
                      /\ connections[j].Connection = conns[i]]_vars

\* C8: a CreateSharePoint for a machine that had no registry entry has
\* returned the not-connected error, issued no remote call and left the store
\* as it was.
C8_CreateShareNotConnected ==
    LET r == res["api"]
    IN  (r.op = "CreateSharePoint" /\ r.machine \notin r.connected) =>
            /\ r.err = "NotConnected"
            /\ calls["api"] = <<>>
            /\ shares = r.pre

\* C8 witness: a CreateSharePoint has returned the not-connected error
C8_Witness ==
    /\ res["api"].op = "CreateSharePoint"
    /\ res["api"].err = "NotConnected"

\* C9 as stated: a DeleteSharePoint for a pair the store did not hold has
\* returned the not-found error, issued no remote call and left the store as
\* it was.
C9_RemoveAbsentIsNotFound ==
    LET r == res["api"]
    IN  (r.op = "DeleteSharePoint" /\ ~DoesExistNFSShare(r.pre, r.machine, r.path)) =>
            /\ r.err = "NotFound"
            /\ calls["api"] = <<>>
            /\ shares = r.pre

\* C9 amended: a DeleteSharePoint for a pair the store did not hold has
\* failed without a remote call and left the store as it was; the error is
\* not-connected when the machine had no connection, and otherwise not-found
\* or, when the existence check could not be read, the failure of that check.
C9_RemoveAbsentFails ==
    LET r == res["api"]
    IN  (r.op = "DeleteSharePoint" /\ ~DoesExistNFSShare(r.pre, r.machine, r.path)) =>
            /\ IF r.machine \notin r.connected
               THEN r.err = "NotConnected"
               ELSE r.err \in {"NotFound", "ExistsCheckFailed"}
            /\ calls["api"] = <<>>
            /\ shares = r.pre

\* C9 witness: a DeleteSharePoint has returned the not-found error
C9_Witness ==
    /\ res["api"].op = "DeleteSharePoint"
    /\ res["api"].err = "NotFound"

(***************************************************************************)
(* Claims about the export file, continued                                 *)
(***************************************************************************)
\* the lines RemoveExport(p) is to keep: comments, blank lines, and the lines
\* whose first field is not p
KeptLines(lines, p) ==
    SelectSeq(lines, LAMBDA line :
        IsComment(line) \/ IsBlank(line) \/ FirstField(line) # p)

\* C11: after a RemoveExport that returned no error, the export file holds
\* the lines it held before, in the same order, without the non-comment,
\* non-blank lines whose first field is the path (read without the white
\* space around it), and no other line is dropped or changed.
C11_RemoveExportFrame ==
    (xLast.op = "RemoveExport" /\ xLast.err = "none") =>
        exportsFile.lines = KeptLines(xLast.pre.lines, TrimSpace(xLast.path))

\* C18: a CreateExport for a path that does not start with "/" has returned
\* an error, created no directory, left the export file as it was and has not
\* reloaded the exports.
C18_CreateExportNotAbsolute ==
    (/\ xLast.op = "CreateExport"
     /\ (xLast.path = <<>> \/ Head(xLast.path) # "/")) =>
        /\ xLast.err = "InvalidArgument"
        /\ ~xLast.mkdir
        /\ exportsFile = xLast.pre
        /\ ~xLast.reload

\* C18 witness: a CreateExport of the relative path a has been refused
C18_Witness ==
    /\ xLast.op = "CreateExport"
    /\ xLast.path = <<"a">>
    /\ xLast.err = "InvalidArgument"

\* the channels on which the calls cs asked for a mount of the share s
MountedOn(cs, s) ==
    {cs[i].conn : i \in {j \in 1..Len(cs) :
                            cs[j].rpc = "MountSharedFolder" /\ cs[j].arg = s}}

\* the operation kept for the API task ran a synchronization and returned
\* without any remote call or store read having failed
SyncPassReturned ==
    /\ res["api"].op \in {"UpdateNFSShit", "CreateSharePoint"}
    /\ res["api"].err \in {"PartialSyncFailure", "none"}
    /\ res["api"].unread = {}

\* C12: when a synchronization has returned without a remote call or a store
\* read failing, then for every owning machine that was connected the owner
\* has been sent its list of shares for export, and every share of that
\* owner has been sent for mounting on as many distinct channels as there
\* were connected workers other than the owner.
C12_SyncTargets ==
    SyncPassReturned =>
        LET r == res["api"]
            cs == calls["api"]
        IN  \A m \in Owners(shares) \cap r.connected :
                /\ \E i \in 1..Len(cs) :
                      /\ cs[i].rpc = "SyncSharedFolder"
                      /\ cs[i].arg = GetNFSharesByMachineName(shares, m)
                /\ \A k \in 1..Len(shares) :
                      shares[k].MachineName = m =>
                          Cardinality(MountedOn(cs, shares[k]))
                              >= Cardinality(r.connected \ {m})

\* C13: a remediation whose three Mount attempts all failed never leaves the
\* monitor stopped: whether the defensive Unmount failed or succeeded, the
\* monitor is not left waiting for the exclusive lock while it holds the
\* read lock itself, a wait that nothing ends and after which no entry is
\* probed again.
C13_MonitorKeepsRunning ==
    ~(/\ mmTries = monitorFailureThreshold
      /\ mmPc = "lockwait"
      /\ pending["mon"].op = "remove"
      /\ monHoldsR)

\* C14: once the monitor has read TransientFailure or Shutdown from the
\* channel, it has closed the channel and is on its way out: it is about to
\* call restartSelf, or the process has been replaced by a fresh instance or
\* has exited through os.Exit(1); it is never back in its loop, reading the
\* state or waiting for a change.  The process goes away only after the
\* close, and (under fair scheduling of the monitor) it does go away.
C14_TerminalStateEndsProcess ==
    /\ [](monState \in {"TransientFailure", "Shutdown"} =>
            /\ monAct = "close"
            /\ chanState = "Shutdown"
            /\ monPc \in {"restart", "gone"}
            /\ (monPc = "gone") <=> (proc \in {"replaced", "exited"}))
    /\ [](proc \in {"replaced", "exited"} =>
            monState \in {"TransientFailure", "Shutdown"} /\ monAct = "close")
    /\ (monPc = "restart" ~> proc \in {"replaced", "exited"})

\* C14 witness: the monitor read TransientFailure, closed the channel, could
\* not exec, and the process exited
C14_Witness ==
    /\ monState = "TransientFailure"
    /\ monAct = "close"
    /\ proc = "exited"

(***************************************************************************)
(* Claims about the Connection Registry.                                   *)
(***************************************************************************)
\* the entries the registry holds for the machine name m
EntriesOf(m) == {i \in 1..Len(connections) : connections[i].MachineName = m}

\* C15: after any sequence of Register calls the registry holds at most one
\* entry for a machine name, and Lookup of a name returns the address and
\* the channel that the last Register call for that name passed (not-found
\* for a name never registered).
C15_RegistryUniqueness ==
    \A m \in Machines :
        /\ Cardinality(EntriesOf(m)) <= 1
        /\ GetConnectionByMachineName(m) = lastRegister[m]

\* C15 witness: machine a registered, then registered again from another
\* address, and the registry holds one entry
C15_Witness ==
    /\ Len(connections) = 1
    /\ lastRegister["a"] = Registration("a", <<"ip2", "a">>, 2)
    /\ lastRegister["b"] = NoConn

(***************************************************************************)
(* Claims about Mount, Unmount and the active set.                         *)
(***************************************************************************)
\* C16: a Mount call that returns an error (empty source or target, failing
\* mkdir, failing mount command) changes neither the active set nor what is
\* waiting to be added to it; an entry is put forward for the set only by a
\* Mount whose source and target are not empty and whose mount command
\* succeeded; and the set grows only by such an entry.
C16_MountAndActiveSet ==
    [][/\ (rpcLast' # rpcLast /\ rpcLast'.op = "mount" /\ rpcLast'.err # "none") =>
            /\ CurrentMounts' = CurrentMounts
            /\ pending' = pending
            /\ osMount' = osMount
       /\ \A th \in Threads :
            (pending'[th].op = "append" /\ pending'[th] # pending[th]) =>
                LET f == pending'[th].folder
                IN  /\ TrimSpace(f.Source) # <<>>
                    /\ TrimSpace(f.Target) # <<>>
                    /\ Top(osMount'[TrimSpace(f.Target)]) = TrimSpace(f.Source)
                    /\ th = "rpc" => rpcLast' = [op |-> "mount", err |-> "none"]
       /\ Len(CurrentMounts') > Len(CurrentMounts) =>
            \E th \in Threads :
                /\ pending[th].op = "append"
                /\ CurrentMounts' = Append(CurrentMounts, pending[th].folder)
      ]_vars

\* C16 witness: a Mount with an empty argument has failed on a worker whose
\* active set holds an entry
C16_Witness ==
    /\ rpcLast = [op |-> "mount", err |-> "InvalidArgument"]
    /\ Len(CurrentMounts) = 1
    /\ pending["rpc"].op = "none"

\* C17: when an Unmount whose umount command succeeded has made its change
\* to the active set, no entry of the set has the unmounted target and the
\* entries with another target are as they were, in the same order; an
\* Unmount call that returns an error changes neither the set nor what is
\* waiting to be changed in it.
C17_UnmountAndActiveSet ==
    [][/\ \A th \in Threads :
            (pending[th].op = "remove" /\ pending'[th].op = "none") =>
                LET t == TrimSpace(pending[th].folder.Target)
                    Other(m) == m.Target # t
                IN  /\ \A i \in 1..Len(CurrentMounts') : CurrentMounts'[i].Target # t
                    /\ SelectSeq(CurrentMounts', Other) = SelectSeq(CurrentMounts, Other)
       /\ (rpcLast' # rpcLast /\ rpcLast'.op = "unmount" /\ rpcLast'.err # "none") =>
            /\ CurrentMounts' = CurrentMounts
            /\ pending' = pending
      ]_vars

\* the CreateSharePoint kept for the API task has added its row to the store
CreatePersisted ==
    /\ res["api"].op = "CreateSharePoint"
    /\ ~DoesExistNFSShare(res["api"].pre, res["api"].machine, res["api"].path)
    /\ DoesExistNFSShare(shares, res["api"].machine, res["api"].path)

\* C19: a CreateSharePoint that has persisted its definition began with the
\* create-export call on the owner, and has gone on, after SyncSharedFolder,
\* into the mount pass (unless the store failed to enumerate its machines);
\* when the pass has ended without error the new share has been sent for
\* mounting on every channel that was connected.
C19_CreateShareRunsMountPass ==
    CreatePersisted =>
        LET r == res["api"]
            cs == calls["api"]
            row == shares[CHOOSE k \in 1..Len(shares) :
                            /\ shares[k].MachineName = r.machine
                            /\ shares[k].FolderPath = r.path]
        IN  /\ cs # <<>>
            /\ Head(cs).rpc = "CreateSharedFolder"
            /\ Head(cs).arg = row
            /\ r.err \in {"running", "none", "ReadFailed", "LengthMismatch",
                          "MountPassFailed", "EnumerationFailed"}
            /\ r.err = "none" =>
                  Cardinality(MountedOn(cs, row)) >= Cardinality(r.connected)

\* the DeleteSharePoint kept for the API task was called for a connected
\* machine and a definition the store held
DeleteOfHeldShare ==
    /\ res["api"].op = "DeleteSharePoint"
    /\ res["api"].machine \in res["api"].connected
    /\ DoesExistNFSShare(res["api"].pre, res["api"].machine, res["api"].path)

\* C20: a DeleteSharePoint for a connected machine and a definition the
\* store holds issues no remote call but one RemoveSharedFolder, on the
\* owner's channel and for that definition (none at all when the store could
\* not be asked whether the definition exists); when it returns without
\* error the store is the store it started on without that definition, the
\* other rows unchanged and in their order, and when it returns an error
\* the store is unchanged.
C20_RemoveShareEffects ==
    DeleteOfHeldShare =>
        LET r == res["api"]
            cs == calls["api"]
            Others(row) == ~(row.MachineName = r.machine /\ row.FolderPath = r.path)
        IN  /\ r.err \in {"none", "ExistsCheckFailed", "RemoveExportFailed",
                          "RemoveFailed"}
            /\ IF r.err = "ExistsCheckFailed" THEN cs = <<>>
               ELSE /\ Len(cs) = 1
                    /\ cs[1].rpc = "RemoveSharedFolder"
                    /\ cs[1].conn = GetConnectionByMachineName(r.machine).Connection
                    /\ cs[1].arg.MachineName = r.machine
                    /\ cs[1].arg.FolderPath = r.path
            /\ shares = IF r.err = "none" THEN SelectSeq(r.pre, Others) ELSE r.pre

\* C20 witness: a definition was removed from a store of two, for a machine
\* that is connected next to another worker
C20_Witness ==
    /\ DeleteOfHeldShare
    /\ res["api"].err = "none"
    /\ Len(res["api"].pre) = 2
    /\ Len(shares) = 1
    /\ Len(connections) = 2

\* the calls of cs that ask for rpc
CallsOf(cs, rpc) == SelectSeq(cs, LAMBDA c : c.rpc = rpc)

\* C21: when a remote call of the mount pass that follows a synchronization
\* has failed, the pass has still issued its remaining calls: a mount call
\* for every share on every connected worker.  (That a store read failing
\* for one machine does not stop the sync calls to the others is part of
\* C1_SyncAllPartialFailure.)
C21_FailureAggregation ==
    (/\ res["api"].op \in {"UpdateNFSShit", "CreateSharePoint"}
     /\ res["api"].err = "MountPassFailed") =>
        Len(CallsOf(calls["api"], "MountSharedFolder"))
            = Len(shares) * Cardinality(res["api"].connected)

(***************************************************************************)
(* Claims about the worker's start-up, its ping task and its connection    *)
(* monitor.                                                                *)
(***************************************************************************)
\* C22: a ping that fails leaves the ping task on its way to the next ping
\* and changes nothing of the process, the channel or the connection
\* monitor; as long as the started process runs, the ping task is sending or
\* sleeping; and after failed pings the task comes to send again (under fair
\* scheduling), unless the process has gone in the meantime.
C22_PingIndependent ==
    /\ [][pingFails' = pingFails + 1 =>
            /\ pingPc' = "sleep"
            /\ UNCHANGED <<chanState, chanPrev, chanNotified, monPc, monState,
                           monAct, termRuns, proc, gen, bootVars>>]_vars
    /\ []((proc = "running" /\ bootPc = "started") => pingPc \in {"send", "sleep"})
    /\ ((pingPc = "sleep" /\ pingFails > 0) ~> (pingPc = "send" \/ proc # "running"))

\* C22 witness: two pings in a row have failed, and the task is about to
\* send the next one while the monitor waits on a Ready channel
C22_Witness ==
    /\ pingFails = 2
    /\ pingPc = "send"
    /\ proc = "running"
    /\ monPc = "wait"
    /\ chanState = "Ready"

(***************************************************************************)
(* Claims about the remote share operations as a whole.                    *)
(***************************************************************************)
\* MountSharedFolder run to its end on the worker state st = [mounts, os],
\* every command succeeding that can
MountApply(st, folder) ==
    IF MountCommandIn(st.os, folder, "ok") = "none"
    THEN [mounts |-> AppendMount(st.mounts, folder), os |-> AfterMountIn(st.os, folder)]
    ELSE st

\* UnmountSharedFolder run to its end on the worker state st
UnmountApply(st, folder) ==
    IF UnmountCommandIn(st.os, folder, "ok") = "none"
    THEN [mounts |-> RemoveFirst(st.mounts, TrimSpace(folder.Target)),
          os |-> AfterUnmountIn(st.os, folder)]
    ELSE st

\* RemoveSharedFolder run twice on the export file gives the file it gives
\* when run once
RemoveExportTwice ==
    \A p \in PathInputs :
        LET path == AwkAssign(TrimSpace(p))
        IN  FilterExports(FilterExports(exportsFile, path), path)
                = FilterExports(exportsFile, path)

\* C23: in every state the worker can be in, Mount called twice in a row
\* with the same arguments leaves the active set as Mount called once does,
\* and so does Unmount.
C23_RemoteOperationsIdempotent ==
    \A folder \in FolderInputs :
        LET here == [mounts |-> CurrentMounts, os |-> osMount]
        IN  /\ MountApply(MountApply(here, folder), folder).mounts
                = MountApply(here, folder).mounts
            /\ UnmountApply(UnmountApply(here, folder), folder).mounts
                = UnmountApply(here, folder).mounts

\* the monitor makes a Mount attempt: one more failure is counted, or the
\* mount command succeeded and MountSharedFolder goes on to Lock()
MonitorMountAttempt ==
    \/ mmTries' = mmTries + 1
    \/ pending["mon"].op = "none" /\ pending'["mon"].op = "append"

\* the monitor calls UnmountSharedFolder: the umount succeeded and the call
\* goes on to Lock(), or it failed and the range loop goes on
MonitorUnmountCall ==
    \/ pending["mon"].op = "none" /\ pending'["mon"].op = "remove"
    \/ mmPc = "remount" /\ mmPc' = "scan"

\* C24: for one detection of an unhealthy ActiveMount the monitor makes at
\* least one and at most monitorFailureThreshold (3) Mount attempts: every
\* attempt is made with fewer than 3 failures counted since the detection and
\* with no attempt having succeeded; after an attempt that succeeded the
\* monitor makes no further attempt and no Unmount call; and it calls Unmount
\* only with exactly 3 failed attempts counted and none succeeded, so a
\* remediation is never left without an attempt.
C24_BoundedRemediation ==
    /\ [][MonitorMountAttempt =>
            /\ mmPc = "remount"
            /\ mmTries < monitorFailureThreshold
            /\ pending["mon"].op = "none"]_vars
    /\ [][MonitorUnmountCall =>
            /\ mmPc = "remount"
            /\ mmTries = monitorFailureThreshold
            /\ pending["mon"].op = "none"]_vars
    /\ [][pending["mon"].op = "append" =>
            UNCHANGED <<mmPc, mmTries, mmMount, mmIdx>> /\ pending'["mon"] = pending["mon"]]_vars
    /\ [](mmTries \in 0..monitorFailureThreshold)
    /\ [](pending["mon"].op = "append" => mmTries < monitorFailureThreshold)

\* the monitor has called Unmount after three failed attempts, and the umount succeeded
C24_Witness ==
    /\ mmTries = monitorFailureThreshold
    /\ pending["mon"].op = "remove"
    /\ mmPc = "lockwait"

\* the monitor leaves its switch statement
MonitorLeavesSwitch == monPc = "switch" /\ monPc' # monPc

\* the started worker's channel is closed, or its process ends, or the
\* monitor's terminal case runs
ChannelClosedOrProcessEnded ==
    /\ proc = "running"
    /\ bootPc = "started"
    /\ \/ proc' # proc
       \/ monChan \in openChans /\ monChan \notin openChans'
       \/ termRuns' # termRuns
       \/ monPc' = "restart" /\ monPc # "restart"

\* C25: on Ready or Connecting the monitor does nothing to the channel (on
\* Connecting it logs), on Idle it only calls conn.Connect(), and in all
\* three it goes on to wait for the next state change with the channel, the
\* process and the set of open channels as they were; the channel is closed
\* and the process replaced or exited only with TransientFailure or Shutdown
\* as the state the monitor observed.
C25_NonTerminalStatesNeverRestart ==
    /\ [][MonitorLeavesSwitch /\ chanState \in {"Ready", "Connecting", "Idle"} =>
            /\ monPc' = "wait"
            /\ monState' = chanState
            /\ monAct' = (CASE chanState = "Idle" -> "connect"
                            [] chanState = "Connecting" -> "log"
                            [] OTHER -> "none")
            /\ UNCHANGED <<chanState, chanPrev, openChans, proc, termRuns, gen>>]_vars
    /\ [][ChannelClosedOrProcessEnded =>
            monState' \in {"TransientFailure", "Shutdown"}]_vars
    /\ [](monAct = "close" => monState \in {"TransientFailure", "Shutdown"})

\* the monitor saw Idle, asked for a reconnect and waits for the next change
C25_Witness ==
    /\ proc = "running"
    /\ monPc = "wait"
    /\ monState = "Idle"
    /\ monAct = "connect"
    /\ monChan \in openChans
    /\ termRuns = 0

\* the active set holds an entry for mount point t
HoldsMount(t) == \E i \in 1..Len(CurrentMounts) : TrimSpace(CurrentMounts[i].Target) = t

\* C26: on a worker where, from some moment on, nothing is mounted on the
\* target of an ActiveMount (the source is gone: every probe of it and every
\* remount attempt fails), the monitor, scheduled fairly and coming back to
\* its sleep between scans again and again, eventually removes the entry
\* from the active set and the set stays without it.
C26_MonitorRemovesLostMount ==
    \A t \in MountPoints :
        (<>[](osMount[t] = <<>>) /\ []<>(mmPc = "sleep")) => <>[](~HoldsMount(t))

\* the API task takes the step in which SyncSharedFolder runs and the store
\* enumerates its owning machines: the end of CreateSharePoint, or
\* UpdateNFSShit
SyncStep ==
    /\ cpc["api"] = "idle"
    /\ res'["api"].op \in {"UpdateNFSShit", "CreateSharePoint"}
    /\ res'["api"].err \in {"PartialSyncFailure", "running"}

\* C27: when SyncSharedFolder runs, every share that is in the store and
\* whose owner is connected is sent to the owner, on the owner's registered
\* channel, in the sync call that makes the owner export its shares;
\* whatever put or failed to put the share on the owner before, and
\* whichever other owners have no connection.  (The store answers the reads
\* for that owner; a failed read of its share list is the case of C1.)
C27_SyncAllClosesWindow ==
    [][SyncStep =>
        \A k \in 1..Len(shares') :
            LET m == shares'[k].MachineName
                conn == GetConnectionByMachineName(m)
            IN  (~NotConnected(conn) /\ m \notin res'["api"].unread) =>
                    \E i \in 1..Len(calls'["api"]) :
                        /\ calls'["api"][i].rpc = "SyncSharedFolder"
                        /\ calls'["api"][i].conn = conn.Connection
                        /\ \E j \in 1..Len(calls'["api"][i].arg) :
                              calls'["api"][i].arg[j] = shares'[k]]_vars

\* C27 witness: UpdateNFSShit found an owner without a connection and has
\* sent the share of the connected owner to it
C27_Witness ==
    /\ res["api"].op = "UpdateNFSShit"
    /\ res["api"].err = "PartialSyncFailure"
    /\ res["api"].unread = {}
    /\ \E i \in 1..Len(calls["api"]) :
          /\ calls["api"][i].rpc = "SyncSharedFolder"
          /\ Len(calls["api"][i].arg) = 1

\* UpdateNFSShit runs: SyncSharedFolder, and the start of the mount pass
UpdateStep == cpc["api"] = "idle" /\ res'["api"].op = "UpdateNFSShit"

\* a task starts or ends MountAllSharedFolders
MountPassStep ==
    \E t \in CoordTasks :
        \/ cpc[t] = "gotConns" /\ cpc'[t] = "idle"
        \/ cpc[t] = "idle" /\ cpc'[t] = "gotConns" /\ res'[t].op # "CreateSharePoint"

\* C28: a step of SyncSharedFolder or of MountAllSharedFolders, whatever it
\* returns (no error, machines without a connection, a failed read, a failed
\* remote call), leaves the table of shares as it was; and the
\* synchronization at the end of CreateSharePoint leaves it as the insert of
\* that CreateSharePoint made it: the old rows, in place, and the new one.
C28_SyncAndMountPassReadOnly ==
    /\ [][(UpdateStep \/ MountPassStep) => shares' = shares]_vars
    /\ [][(cpc["api"] = "idle" /\ res'["api"].op = "CreateSharePoint") =>
            \/ shares' = shares
            \/ /\ Len(shares') = Len(shares) + 1
               /\ SubSeq(shares', 1, Len(shares)) = shares
               /\ shares'[Len(shares')].MachineName = res'["api"].machine
               /\ shares'[Len(shares')].FolderPath = res'["api"].path]_vars

\* C28 witness: an UpdateNFSShit whose mount pass ended on a failed remote
\* call, with the two rows it started on still in the table
C28_Witness ==
    /\ res["api"].op = "UpdateNFSShit"
    /\ res["api"].err = "MountPassFailed"
    /\ Len(res["api"].pre) = 2
    /\ shares = res["api"].pre

\* C29: the connection monitor and the ping task run only in a process whose
\* SetConnection was acknowledged, both on the channel that registered; they
\* are started in the step that takes the acknowledgement and nothing of the
\* start-up happens again in that process; a dial or a registration that
\* fails starts neither of them and leads back to the dial; whenever the
\* worker dials, every channel it opened before is closed, and while it
\* registers only the channel just dialled is open; and a running worker that
\* has not registered comes to register (under fair scheduling, with the
\* coordinator answering in the end).
C29_StartUpOrder ==
    /\ []((monPc # "off" \/ pingPc # "off") =>
            /\ bootPc = "started"
            /\ regChan # 0
            /\ monChan = regChan
            /\ pingChan = regChan)
    /\ [][(monPc = "off" /\ monPc' # "off") \/ (pingPc = "off" /\ pingPc' # "off") =>
            /\ bootPc = "register" /\ bootPc' = "started"
            /\ monPc = "off" /\ monPc' = "switch"
            /\ pingPc = "off" /\ pingPc' = "send"
            /\ regChan' = dials
            /\ dials \in openChans']_vars
    /\ [][(bootPc = "started" /\ gen' = gen) =>
            /\ bootPc' = "started"
            /\ monPc' # "off" /\ pingPc' # "off"
            /\ UNCHANGED <<regChan, monChan, pingChan, dials>>]_vars
    /\ [][bootFails' = bootFails + 1 =>
            /\ bootPc' = "dial"
            /\ monPc' = "off" /\ pingPc' = "off"
            /\ dials \notin openChans']_vars
    /\ [](bootPc = "dial" => openChans = {})
    /\ [](bootPc = "register" => openChans = {dials})
    /\ ((proc = "running" /\ bootPc # "started") ~> (bootPc = "started"))

\* C29 witness: a registration failed on the first channel, which was
\* closed; the second one was acknowledged and both tasks run on it
C29_Witness ==
    /\ bootPc = "started"
    /\ dials = 2
    /\ regChan = 2
    /\ openChans = {2}
    /\ monPc = "switch"
    /\ pingPc = "send"
    /\ gen = 0

\* the monitor probes the entry at mmIdx: the one step it can take in the
\* range loop with an entry left
ProbeStep ==
    /\ mmPc = "scan"
    /\ mmIdx <= mmLen
    /\ <<mmPc, mmIdx>>' # <<mmPc, mmIdx>>

\* C30: a probe of the monitor judges the entry healthy, and goes on to the
\* next entry, exactly when the directory could be read and the target is a
\* mount point; when the read fails, or the target is not a mount point, the
\* verdict is 'not mounted': the monitor, still running, starts the
\* remediation of that entry with no attempt counted.
C30_LivenessProbe ==
    [][ProbeStep =>
        LET target == CurrentMounts[mmIdx].Target
            healthy == mmRead' /\ target \in MountPoints /\ osMount[target] # <<>>
        IN  /\ healthy => mmPc' = "scan" /\ mmIdx' = mmIdx + 1
            /\ ~healthy =>
                  /\ mmPc' = "remount"
                  /\ mmIdx' = mmIdx
                  /\ mmTries' = 0
                  /\ mmMount' = CurrentMounts[mmIdx]
            /\ UNCHANGED <<CurrentMounts, osMount, monHoldsR, pending>>]_vars

\* C30 witness: the target is a mount point, the directory could not be
\* read, and the monitor is about to remount
C30_Witness ==
    /\ mmPc = "remount"
    /\ mmTries = 0
    /\ ~mmRead
    /\ mmMount.Target \in MountPoints
    /\ osMount[mmMount.Target] # <<>>

\* C31: when CreateSharePoint has returned the error of the owner's
\* CreateSharedFolder, the table of shares is what it was when the operation
\* started, the operation has made that one remote call and no other (no
\* sync call, no call of a mount pass) and has not entered the mount pass;
\* when DeleteSharePoint has returned the error of the owner's
\* RemoveSharedFolder, the table is what it was and still holds the share.
C31_StoreUnchangedOnRemoteFailure ==
    LET r == res["api"]
        cs == calls["api"]
    IN  /\ (r.op = "CreateSharePoint" /\ r.err = "CreateExportFailed") =>
              /\ shares = r.pre
              /\ Len(cs) = 1
              /\ cs[1].rpc = "CreateSharedFolder"
              /\ cs[1].arg.MachineName = r.machine
              /\ cs[1].arg.FolderPath = r.path
              /\ cpc["api"] = "idle"
              /\ mpConns["api"] = <<>>
        /\ (r.op = "DeleteSharePoint" /\ r.err = "RemoveExportFailed") =>
              /\ shares = r.pre
              /\ DoesExistNFSShare(shares, r.machine, r.path)
              /\ Len(cs) = 1
              /\ cs[1].rpc = "RemoveSharedFolder"

\* C31 witness: the owner's RemoveSharedFolder failed for a share the table
\* holds beside another one
C31_Witness ==
    /\ res["api"].op = "DeleteSharePoint"
    /\ res["api"].err = "RemoveExportFailed"
    /\ Len(shares) = 2
    /\ DoesExistNFSShare(shares, res["api"].machine, res["api"].path)

\* a CreateSharePoint has returned the error of the owner's
\* CreateSharedFolder for a share the table does not hold
CreateRemoteFailed ==
    /\ res["api"].op = "CreateSharePoint"
    /\ res["api"].err = "CreateExportFailed"
    /\ ~DoesExistNFSShare(shares, res["api"].machine, res["api"].path)

\* the mount calls of cs for the share s on the channel conn
MountSentTo(cs, conn, s) ==
    \E i \in 1..Len(cs) :
        /\ cs[i].rpc = "MountSharedFolder"
        /\ cs[i].conn = conn
        /\ cs[i].arg = s

\* the mount pass that newSlave started for a registration has returned,
\* having read the table and found channels and names of one length
RegistrationPassReturned ==
    /\ res["reg"].op = "Register"
    /\ cpc["reg"] = "idle"
    /\ res["reg"].err \in {"none", "MountPassFailed"}

\* a registration's mount pass that returned no error has sent every share
\* of the table to the worker that registered
RegistrationPassComplete ==
    (RegistrationPassReturned /\ res["reg"].err = "none") =>
        \A k \in 1..Len(shares) :
            MountSentTo(calls["reg"], lastRegister[res["reg"].machine].Connection,
                        shares[k])

====
